---- MODULE Spec2Model ----
(***************************************************************************)
(* The PDF editor of src/growth-calculator/brain.js as a state machine:    *)
(* the session state AppState, the event handlers of the toolbar, the      *)
(* per-page undo/redo history, the annotation store, the asynchronous page *)
(* render and the flattening of the stored annotations by savePDF.         *)
(*                                                                         *)
(* The editing surface is Fabric.js v5.3.0 (brain.js:81).  Its canvas      *)
(* fires 'object:added' after an object is inserted (add, insertAt) and    *)
(* 'object:removed' after an object is taken out (remove; clear() removes  *)
(* the objects one by one), and loadFromJSON restores a snapshot with      *)
(* clear() followed by insertAt for each object of the snapshot.  Every    *)
(* canvas the editor creates has saveUndoState subscribed to these events  *)
(* (brain.js:397-399), so each of them runs saveUndoState.                 *)
(***************************************************************************)
EXTENDS Integers, Sequences, FiniteSets, TLC

VARIABLES
    pdfDoc,            \* AppState.pdfDoc: the PDF.js document, or NoDoc for null
    pdfBytes,          \* AppState.pdfBytes: the bytes of the loaded file, or NoDoc
    currentPage,       \* AppState.currentPage
    totalPages,        \* AppState.totalPages
    renderScale,       \* AppState.renderScale, in percent
    fabricCanvas,      \* AppState.fabricCanvas: [exists, objects]
    annotations,       \* AppState.annotations: page key -> snapshot (object list)
    undoStack,         \* AppState.undoStack: page key -> sequence of snapshots
    redoStack,         \* AppState.redoStack: page key -> sequence of snapshots
    pdfCanvas,         \* the page and scale last drawn on #pdfCanvas
    originalFileName,  \* AppState.originalFileName
    editorVisible,     \* #editorSection is displayed (the toolbar can be used)
    localStorage,      \* the value under key 'pdfEditorAnnotations'
    loads,             \* handleFile invocations suspended at an await
    renders,           \* renderCurrentPage invocations suspended at an await
    saves,             \* savePDF invocations suspended at an await
    downloads,         \* the files handed to saveAs, oldest first
    last,              \* history: the last user event and the state it found
    steps,             \* history: number of user events so far
    phases             \* history: number of changes of the kind of user event

vars == <<pdfDoc, pdfBytes, currentPage, totalPages, renderScale, fabricCanvas,
          annotations, undoStack, redoStack, pdfCanvas, originalFileName,
          editorVisible, localStorage, loads, renders, saves, downloads,
          last, steps, phases>>

appVars == <<pdfDoc, pdfBytes, currentPage, totalPages, renderScale, fabricCanvas,
             annotations, undoStack, redoStack, pdfCanvas, originalFileName,
             editorVisible, localStorage, loads, renders, saves, downloads>>

----------------------------------------------------------------------------
(* Bounds of the model and constants of the program *)

UndoLimit == 50
DefaultScale == 150
MaxPages == 2
MaxObjects == 2
MaxRenders == 2
MaxLoads == 1
MaxSaves == 2
MaxSaveSteps == 6
MaxSteps == 7
MaxPhases == 3

----------------------------------------------------------------------------
(* Values *)

NoDoc == [loaded |-> FALSE, name |-> "", pages |-> 0]

Doc(name, pages) == [loaded |-> TRUE, name |-> name, pages |-> pages]

\* AppState.fabricCanvas: whether it is set and the objects it holds; live
\* counts the fabric.Canvas instances created and not disposed.
NoCanvas == [exists |-> FALSE, objects |-> <<>>, live |-> 0]

NoPdfCanvas == [page |-> 0, scale |-> 0]

EmptyMap == <<>>

Put(f, k, v) == [x \in (DOMAIN f) \cup {k} |-> IF x = k THEN v ELSE f[x]]

Textbox(text) == [type |-> "textbox", text |-> text, src |-> ""]

Image(src) == [type |-> "image", text |-> "", src |-> src]

DefaultTextbox == Textbox("Double-click to edit")

Stack(f, k) == IF k \in DOMAIN f THEN f[k] ELSE <<>>

Front(s) == SubSeq(s, 1, Len(s) - 1)

Top(s) == s[Len(s)]

RemoveAt(s, i) == SubSeq(s, 1, i - 1) \o SubSeq(s, i + 1, Len(s))

----------------------------------------------------------------------------
(* History of user events, kept for stating the properties *)

\* The fields of the session state a file load assigns.
NoSession ==
    [pdfBytes |-> NoDoc, pdfDoc |-> NoDoc, originalFileName |-> "",
     currentPage |-> 1, totalPages |-> 0, annotations |-> EmptyMap,
     undoStack |-> EmptyMap, redoStack |-> EmptyMap]

session ==
    [pdfBytes |-> pdfBytes, pdfDoc |-> pdfDoc, originalFileName |-> originalFileName,
     currentPage |-> currentPage, totalPages |-> totalPages,
     annotations |-> annotations, undoStack |-> undoStack, redoStack |-> redoStack]

NoEvent ==
    [op |-> "init", page |-> 0, threw |-> FALSE, cause |-> "",
     canvas |-> <<>>, undo |-> <<>>, redo |-> <<>>,
     hadUndo |-> FALSE, hadRedo |-> FALSE, store |-> <<>>,
     afterUndo |-> FALSE, uCanvas |-> <<>>, uUndo |-> <<>>, uRedo |-> <<>>,
     afterMutation |-> FALSE, mCanvas |-> <<>>,
     written |-> TRUE, confirmed |-> FALSE, hadCanvas |-> FALSE, before |-> NoSession,
     storage |-> [present |-> FALSE, parses |-> TRUE, value |-> <<>>]]

\* The event op, with the page, canvas, store and history stacks it finds.
Event(op, threw) ==
    [NoEvent EXCEPT
        !.op = op, !.page = currentPage, !.threw = threw,
        !.canvas = fabricCanvas.objects,
        !.undo = Stack(undoStack, currentPage),
        !.redo = Stack(redoStack, currentPage),
        !.hadUndo = currentPage \in DOMAIN undoStack,
        !.hadRedo = currentPage \in DOMAIN redoStack,
        !.store = annotations,
        !.hadCanvas = fabricCanvas.exists,
        !.storage = localStorage]

----------------------------------------------------------------------------
(* Undo/redo system: brain.js:543-606.  h is the pair of history maps       *)
(* [undo |-> AppState.undoStack, redo |-> AppState.redoStack].              *)

\* Mutant: pop() in place of shift(), the newest snapshot is dropped.
pushLimited_dropsNewest(stack, state) ==
    LET pushed == Append(stack, state)
    IN  IF Len(pushed) > UndoLimit THEN Front(pushed) ELSE pushed

\* push(state), then shift() once the stack is longer than UndoLimit.
pushLimited(stack, state) ==
    LET pushed == Append(stack, state)
    IN  IF Len(pushed) > UndoLimit THEN Tail(pushed) ELSE pushed

\* Mutant: the key is that of the first page whatever the current page is.
saveUndoState_firstPage(h, pageKey, objects) ==
    [undo |-> Put(h.undo, 1, pushLimited(Stack(h.undo, 1), objects)),
     redo |-> Put(h.redo, 1, <<>>)]

\* Mutant: the redo stack is initialised but not cleared.
saveUndoState_keepsRedo(h, pageKey, objects) ==
    [undo |-> Put(h.undo, pageKey, pushLimited(Stack(h.undo, pageKey), objects)),
     redo |-> Put(h.redo, pageKey, Stack(h.redo, pageKey))]

\* saveUndoState with pageKey = AppState.currentPage and the canvas holding objects.
saveUndoState(h, pageKey, objects) ==
    [undo |-> Put(h.undo, pageKey, pushLimited(Stack(h.undo, pageKey), objects)),
     redo |-> Put(h.redo, pageKey, <<>>)]

\* canvas.clear(): the objects are removed first to last, 'object:removed'
\* fires after each removal.
RECURSIVE canvasClear(_, _, _)
canvasClear(h, pageKey, objects) ==
    IF objects = <<>> THEN h
    ELSE canvasClear(saveUndoState(h, pageKey, Tail(objects)), pageKey, Tail(objects))

\* insertAt(obj, index) for the objects of json from position i on,
\* 'object:added' fires after each insertion.
RECURSIVE canvasInsertAll(_, _, _, _)
canvasInsertAll(h, pageKey, json, i) ==
    IF i > Len(json) THEN h
    ELSE canvasInsertAll(saveUndoState(h, pageKey, SubSeq(json, 1, i)), pageKey, json, i + 1)

\* canvas.loadFromJSON(json, ...) on a canvas holding objects: the canvas ends
\* holding json; the result is the history after the events it fired.
loadFromJSON(h, pageKey, objects, json) ==
    canvasInsertAll(canvasClear(h, pageKey, objects), pageKey, json, 1)

\* The guard of undo (brain.js:569): nothing to undo.
nothingToUndo(h, pageKey) ==
    pageKey \notin DOMAIN h.undo \/ h.undo[pageKey] = <<>>

\* The guard of redo (brain.js:592): nothing to redo.
nothingToRedo(h, pageKey) ==
    pageKey \notin DOMAIN h.redo \/ h.redo[pageKey] = <<>>

\* Mutant: the top of the undo stack is read but not popped.
undoResult_keepsTop(h, pageKey, objects) ==
    IF nothingToUndo(h, pageKey)
    THEN [undo |-> h.undo, redo |-> h.redo, objects |-> objects, threw |-> FALSE]
    ELSE LET redoPushed == Put(h.redo, pageKey, Append(Stack(h.redo, pageKey), objects))
             previousState == Top(h.undo[pageKey])
             after == loadFromJSON([undo |-> h.undo, redo |-> redoPushed],
                                   pageKey, objects, previousState)
         IN  [undo |-> after.undo, redo |-> after.redo, objects |-> previousState,
              threw |-> FALSE]

\* Mutant: the guard tests only that the undo stack exists, not its length;
\* pop() of an empty stack gives undefined and loadFromJSON(undefined) returns.
undoResult_lengthUnchecked(h, pageKey, objects) ==
    IF pageKey \notin DOMAIN h.undo
    THEN [undo |-> h.undo, redo |-> h.redo, objects |-> objects, threw |-> FALSE]
    ELSE LET redoPushed == Put(h.redo, pageKey, Append(Stack(h.redo, pageKey), objects))
         IN  IF h.undo[pageKey] = <<>>
             THEN [undo |-> h.undo, redo |-> redoPushed, objects |-> objects,
                   threw |-> FALSE]
             ELSE LET previousState == Top(h.undo[pageKey])
                      popped == Put(h.undo, pageKey, Front(h.undo[pageKey]))
                      after == loadFromJSON([undo |-> popped, redo |-> redoPushed],
                                            pageKey, objects, previousState)
                  IN  [undo |-> after.undo, redo |-> after.redo,
                       objects |-> previousState, threw |-> FALSE]

\* Mutant: no guard; on a page without undo stack the redo stack is created
\* and pushed, then AppState.undoStack[pageKey].pop throws.
undoResult_unguarded(h, pageKey, objects) ==
    LET redoPushed == Put(h.redo, pageKey, Append(Stack(h.redo, pageKey), objects))
    IN  IF pageKey \notin DOMAIN h.undo
        THEN [undo |-> h.undo, redo |-> redoPushed, objects |-> objects, threw |-> TRUE]
        ELSE IF h.undo[pageKey] = <<>>
        THEN [undo |-> h.undo, redo |-> redoPushed, objects |-> objects, threw |-> FALSE]
        ELSE LET previousState == Top(h.undo[pageKey])
                 popped == Put(h.undo, pageKey, Front(h.undo[pageKey]))
                 after == loadFromJSON([undo |-> popped, redo |-> redoPushed],
                                       pageKey, objects, previousState)
             IN  [undo |-> after.undo, redo |-> after.redo,
                  objects |-> previousState, threw |-> FALSE]

\* undo with pageKey = AppState.currentPage on a canvas holding objects: the
\* history and canvas it leaves, and whether it ended with an uncaught error.
undoResult(h, pageKey, objects) ==
    IF nothingToUndo(h, pageKey)
    THEN [undo |-> h.undo, redo |-> h.redo, objects |-> objects, threw |-> FALSE]
    ELSE LET redoPushed == Put(h.redo, pageKey, Append(Stack(h.redo, pageKey), objects))
             previousState == Top(h.undo[pageKey])
             popped == Put(h.undo, pageKey, Front(h.undo[pageKey]))
             after == loadFromJSON([undo |-> popped, redo |-> redoPushed],
                                   pageKey, objects, previousState)
         IN  [undo |-> after.undo, redo |-> after.redo, objects |-> previousState,
              threw |-> FALSE]

\* redo likewise.  AppState.undoStack[pageKey].push (brain.js:598) throws a
\* TypeError when the page has no undo stack: redo ends there.
redoResult(h, pageKey, objects) ==
    IF nothingToRedo(h, pageKey)
    THEN [undo |-> h.undo, redo |-> h.redo, objects |-> objects, threw |-> FALSE]
    ELSE IF pageKey \notin DOMAIN h.undo
    THEN [undo |-> h.undo, redo |-> h.redo, objects |-> objects, threw |-> TRUE]
    ELSE LET undoPushed == Put(h.undo, pageKey, Append(h.undo[pageKey], objects))
             redoState == Top(h.redo[pageKey])
             popped == Put(h.redo, pageKey, Front(h.redo[pageKey]))
             after == loadFromJSON([undo |-> undoPushed, redo |-> popped],
                                   pageKey, objects, redoState)
         IN  [undo |-> after.undo, redo |-> after.redo, objects |-> redoState,
              threw |-> FALSE]

history == [undo |-> undoStack, redo |-> redoStack]

otherThanCanvasAndHistory ==
    <<pdfDoc, pdfBytes, currentPage, totalPages, renderScale, annotations,
      pdfCanvas, originalFileName, editorVisible, localStorage, loads, renders,
      saves, downloads>>

\* btnUndo / Ctrl+Z
undo ==
    /\ editorVisible
    /\ LET r == undoResult(history, currentPage, fabricCanvas.objects)
           chained == last.op \in {"add", "remove", "modify"} /\ last.page = currentPage
       IN  /\ undoStack' = r.undo
           /\ redoStack' = r.redo
           /\ fabricCanvas' = [fabricCanvas EXCEPT !.objects = r.objects]
           /\ last' = [Event("undo", r.threw) EXCEPT
                          !.afterMutation = chained,
                          !.mCanvas = IF chained THEN last.canvas ELSE <<>>]
    /\ UNCHANGED otherThanCanvasAndHistory

\* btnRedo / Ctrl+Y
redo ==
    /\ editorVisible
    /\ LET r == redoResult(history, currentPage, fabricCanvas.objects)
           chained == last.op = "undo" /\ last.undo # <<>> /\ last.page = currentPage
       IN  /\ undoStack' = r.undo
           /\ redoStack' = r.redo
           /\ fabricCanvas' = [fabricCanvas EXCEPT !.objects = r.objects]
           /\ last' = [Event("redo", r.threw) EXCEPT
                          !.afterUndo = chained,
                          !.uCanvas = IF chained THEN last.canvas ELSE <<>>,
                          !.uUndo = IF chained THEN last.undo ELSE <<>>,
                          !.uRedo = IF chained THEN last.redo ELSE <<>>]
    /\ UNCHANGED otherThanCanvasAndHistory

----------------------------------------------------------------------------
(* Annotation operations: brain.js:449-519.  Each changes the canvas and     *)
(* fires one event, which runs saveUndoState.                                *)

canvasEvent(op, objects) ==
    LET h == saveUndoState(history, currentPage, objects)
    IN  /\ fabricCanvas' = [fabricCanvas EXCEPT !.objects = objects]
        /\ undoStack' = h.undo
        /\ redoStack' = h.redo
        /\ last' = Event(op, FALSE)
        /\ UNCHANGED otherThanCanvasAndHistory

\* addTextBox / handleImageSelect: canvas.add(obj), 'object:added'
addObject(obj) ==
    /\ editorVisible
    /\ fabricCanvas.exists
    /\ Len(fabricCanvas.objects) < MaxObjects
    /\ canvasEvent("add", Append(fabricCanvas.objects, obj))

\* deleteSelected with the i-th object active: canvas.remove(obj), 'object:removed'
deleteSelected(i) ==
    /\ editorVisible
    /\ fabricCanvas.exists
    /\ i \in 1..Len(fabricCanvas.objects)
    /\ canvasEvent("remove", RemoveAt(fabricCanvas.objects, i))

\* The user edits the text of the i-th object: 'object:modified'
objectModified(i, text) ==
    /\ editorVisible
    /\ fabricCanvas.exists
    /\ i \in 1..Len(fabricCanvas.objects)
    /\ fabricCanvas.objects[i].type = "textbox"
    /\ fabricCanvas.objects[i].text # text
    /\ canvasEvent("modify", [fabricCanvas.objects EXCEPT ![i].text = text])

\* delete f[k]
Remove(f, k) == [x \in (DOMAIN f) \ {k} |-> f[x]]

\* btnClear (brain.js:524-534): after confirm, canvas.clear() fires
\* 'object:removed' for each object and the store entry of the page is deleted.
clearPageAnnotations(confirmed) ==
    /\ editorVisible
    /\ IF fabricCanvas.exists /\ confirmed
       THEN LET h == canvasClear(history, currentPage, fabricCanvas.objects)
            IN  /\ fabricCanvas' = [fabricCanvas EXCEPT !.objects = <<>>]
                /\ undoStack' = h.undo
                /\ redoStack' = h.redo
                /\ annotations' = Remove(annotations, currentPage)
       ELSE UNCHANGED <<fabricCanvas, undoStack, redoStack, annotations>>
    /\ last' = [Event("clear", FALSE) EXCEPT !.confirmed = confirmed]
    /\ UNCHANGED <<pdfDoc, pdfBytes, currentPage, totalPages, renderScale,
                   pdfCanvas, originalFileName, editorVisible, localStorage,
                   loads, renders, saves, downloads>>

----------------------------------------------------------------------------
(* Annotation persistence and page rendering: brain.js:331-402, 615-649 *)

\* The item 'pdfEditorAnnotations' of localStorage: whether it is present,
\* whether its text parses as JSON, and the value the text stands for.
NoStorage == [present |-> FALSE, parses |-> TRUE, value |-> EmptyMap]

\* What JSON.parse gives for a text that is JSON but no mapping from page
\* numbers to snapshots (a number, a string, an array).
NotAMapping == [x \in {0} |-> <<>>]

\* tryRestoreSession (brain.js:654-664) with AppState.annotations = store: the
\* store it leaves, and whether an error leaves it (the catch logs it).
tryRestoreSession(storage, store) ==
    IF ~storage.present THEN [store |-> store, threw |-> FALSE]
    ELSE IF ~storage.parses THEN [store |-> store, threw |-> FALSE]
    ELSE [store |-> storage.value, threw |-> FALSE]

\* saveCurrentPageAnnotations, the in-memory part: the store it leaves when
\* AppState.currentPage is page.
saveCurrentPageAnnotations(store, canvas, page) ==
    IF ~canvas.exists THEN store ELSE Put(store, page, canvas.objects)

\* Mutant: setItem of the entries holding the snapshot just taken only.
persistAnnotations_currentOnly(storage, store, canvas, written) ==
    IF canvas.exists /\ written
    THEN [present |-> TRUE, parses |-> TRUE,
          value |-> [k \in {x \in DOMAIN store : store[x] = canvas.objects} |-> store[k]]]
    ELSE storage

\* saveCurrentPageAnnotations, the localStorage part: setItem of the whole
\* store; written is FALSE when setItem throws (caught, brain.js:624).
persistAnnotations(storage, store, canvas, written) ==
    IF canvas.exists /\ written THEN [present |-> TRUE, parses |-> TRUE, value |-> store]
    ELSE storage

\* Mutant: the error of setItem is not caught, the entry is taken back and
\* the page is not rendered.
renderCurrentPage_writeFailureAborts(doc, page, store, written) ==
    IF ~doc.loaded \/ (fabricCanvas.exists /\ ~written)
    THEN /\ annotations' = store
         /\ UNCHANGED <<localStorage, renders>>
    ELSE /\ annotations' = saveCurrentPageAnnotations(store, fabricCanvas, page)
         /\ localStorage' = persistAnnotations(localStorage, annotations', fabricCanvas, written)
         /\ renders' = Append(renders, [pc |-> "getPage", page |-> page, scale |-> 0])

\* renderCurrentPage up to its first await (brain.js:332-341), called with
\* AppState.pdfDoc = doc, AppState.currentPage = page, AppState.annotations = store.
renderCurrentPage(doc, page, store, written) ==
    IF ~doc.loaded
    THEN /\ annotations' = store
         /\ UNCHANGED <<localStorage, renders>>
    ELSE /\ annotations' = saveCurrentPageAnnotations(store, fabricCanvas, page)
         /\ localStorage' = persistAnnotations(localStorage, annotations', fabricCanvas, written)
         /\ renders' = Append(renders, [pc |-> "getPage", page |-> page, scale |-> 0])

\* renderCurrentPage resumes with the page (brain.js:344-360): the viewport is
\* computed with the scale of that moment and the page is drawn on #pdfCanvas.
renderGotPage(i) ==
    /\ i \in 1..Len(renders)
    /\ renders[i].pc = "getPage"
    /\ pdfCanvas' = [page |-> renders[i].page, scale |-> renderScale]
    /\ renders' = [renders EXCEPT ![i].pc = "render", ![i].scale = renderScale]
    /\ last' = [NoEvent EXCEPT !.op = "renderGotPage"]
    /\ UNCHANGED <<pdfDoc, pdfBytes, currentPage, totalPages, renderScale,
                   fabricCanvas, annotations, undoStack, redoStack,
                   originalFileName, editorVisible, localStorage, loads, saves,
                   downloads>>

\* Mutant: the canvas in place is not disposed.
initializeFabricCanvas_noDispose(canvas) ==
    [exists |-> TRUE, objects |-> <<>>, live |-> canvas.live + 1]

\* initializeFabricCanvas (brain.js:379-402) with AppState.fabricCanvas =
\* canvas: the canvas in place is disposed and a new, empty one is created.
initializeFabricCanvas(canvas) ==
    LET disposed == IF canvas.exists THEN canvas.live - 1 ELSE canvas.live
    IN  [exists |-> TRUE, objects |-> <<>>, live |-> disposed + 1]

\* restorePageAnnotations on the new, empty canvas: the history it leaves.
restorePageAnnotations(h, store, page) ==
    IF page \in DOMAIN store THEN loadFromJSON(h, page, <<>>, store[page])
    ELSE canvasClear(h, page, <<>>)

\* renderCurrentPage resumes after page.render (brain.js:363-368):
\* initializeFabricCanvas disposes the old canvas and creates an empty one,
\* restorePageAnnotations loads the store entry of AppState.currentPage.
renderDone(i) ==
    /\ i \in 1..Len(renders)
    /\ renders[i].pc = "render"
    /\ LET h == restorePageAnnotations(history, annotations, currentPage)
       IN  /\ fabricCanvas' = [initializeFabricCanvas(fabricCanvas) EXCEPT
                                   !.objects = Stack(annotations, currentPage)]
           /\ undoStack' = h.undo
           /\ redoStack' = h.redo
    /\ renders' = RemoveAt(renders, i)
    /\ last' = [NoEvent EXCEPT !.op = "renderDone", !.hadCanvas = fabricCanvas.exists]
    /\ UNCHANGED <<pdfDoc, pdfBytes, currentPage, totalPages, renderScale,
                   annotations, pdfCanvas, originalFileName, editorVisible,
                   localStorage, loads, saves, downloads>>

\* btnNextPage
nextPage(written) ==
    /\ editorVisible
    /\ currentPage < totalPages
    /\ Len(renders) < MaxRenders
    /\ currentPage' = currentPage + 1
    /\ renderCurrentPage(pdfDoc, currentPage', annotations, written)
    /\ last' = [Event("nextPage", FALSE) EXCEPT !.written = written]
    /\ UNCHANGED <<pdfDoc, pdfBytes, totalPages, renderScale, fabricCanvas,
                   undoStack, redoStack, pdfCanvas, originalFileName,
                   editorVisible, loads, saves, downloads>>

\* btnPrevPage
previousPage(written) ==
    /\ editorVisible
    /\ currentPage > 1
    /\ Len(renders) < MaxRenders
    /\ currentPage' = currentPage - 1
    /\ renderCurrentPage(pdfDoc, currentPage', annotations, written)
    /\ last' = [Event("previousPage", FALSE) EXCEPT !.written = written]
    /\ UNCHANGED <<pdfDoc, pdfBytes, totalPages, renderScale, fabricCanvas,
                   undoStack, redoStack, pdfCanvas, originalFileName,
                   editorVisible, loads, saves, downloads>>

\* The values of #zoomSelect, in percent.
ZoomScales == {100, DefaultScale}

\* zoomSelect change (brain.js:183-186): the scale is set and the page is
\* rendered again.
zoomChange(scale, written) ==
    /\ editorVisible
    /\ Len(renders) < MaxRenders
    /\ renderScale' = scale
    /\ renderCurrentPage(pdfDoc, currentPage, annotations, written)
    /\ last' = [Event("zoom", FALSE) EXCEPT !.written = written]
    /\ UNCHANGED <<pdfDoc, pdfBytes, currentPage, totalPages, fabricCanvas,
                   undoStack, redoStack, pdfCanvas, originalFileName,
                   editorVisible, loads, saves, downloads>>

----------------------------------------------------------------------------
(* File handling: brain.js:244-322 *)

\* A file the user can pick: its name, whether its type is application/pdf,
\* whether its bytes can be read and parsed, and its number of pages.
PdfFile(name, pages) ==
    [name |-> name, isPdf |-> TRUE, readable |-> TRUE, parsable |-> TRUE, pages |-> pages]

\* handleFile up to its first await (brain.js:246-268)
handleFile(file) ==
    /\ ~editorVisible
    /\ Len(loads) < MaxLoads
    /\ IF ~file.isPdf
       THEN UNCHANGED <<originalFileName, loads>>
       ELSE /\ originalFileName' = file.name
            /\ loads' = Append(loads, [pc |-> "read", file |-> file, before |-> session])
    /\ last' = [Event(IF file.isPdf THEN "handleFile" ELSE "handleFileRejected", FALSE)
                   EXCEPT !.before = session]
    /\ UNCHANGED <<pdfDoc, pdfBytes, currentPage, totalPages, renderScale,
                   fabricCanvas, annotations, undoStack, redoStack, pdfCanvas,
                   editorVisible, localStorage, renders, saves, downloads>>

\* handleFile resumes with the bytes (brain.js:269-273), or ends in its catch
\* when the bytes cannot be read.
handleFileRead(i) ==
    /\ i \in 1..Len(loads)
    /\ loads[i].pc = "read"
    /\ IF loads[i].file.readable
       THEN /\ pdfBytes' = Doc(loads[i].file.name, loads[i].file.pages)
            /\ loads' = [loads EXCEPT ![i].pc = "parse"]
       ELSE /\ loads' = RemoveAt(loads, i)
            /\ UNCHANGED pdfBytes
    /\ last' = IF loads[i].file.readable THEN [NoEvent EXCEPT !.op = "handleFileRead"]
               ELSE [NoEvent EXCEPT !.op = "handleFileFailed", !.before = loads[i].before]
    /\ UNCHANGED <<pdfDoc, currentPage, totalPages, renderScale, fabricCanvas,
                   annotations, undoStack, redoStack, pdfCanvas,
                   originalFileName, editorVisible, localStorage, renders,
                   saves, downloads>>

\* Mutant: AppState.currentPage is not set back to 1.
handleFileParsed_keepsPage(i, written) ==
    /\ i \in 1..Len(loads)
    /\ loads[i].pc = "parse"
    /\ loads' = RemoveAt(loads, i)
    /\ last' = IF loads[i].file.parsable THEN [NoEvent EXCEPT !.op = "handleFileParsed"]
               ELSE [NoEvent EXCEPT !.op = "handleFileFailed", !.before = loads[i].before]
    /\ IF loads[i].file.parsable
       THEN /\ pdfDoc' = Doc(loads[i].file.name, loads[i].file.pages)
            /\ totalPages' = loads[i].file.pages
            /\ currentPage' = currentPage
            /\ undoStack' = EmptyMap
            /\ redoStack' = EmptyMap
            /\ editorVisible' = TRUE
            /\ renderCurrentPage(pdfDoc', currentPage, EmptyMap, written)
       ELSE UNCHANGED <<pdfDoc, totalPages, currentPage, undoStack, redoStack,
                        editorVisible, annotations, localStorage, renders>>
    /\ UNCHANGED <<pdfBytes, renderScale, fabricCanvas, pdfCanvas,
                   originalFileName, saves, downloads>>

\* handleFile resumes with the parsed document (brain.js:273-289) and calls
\* renderCurrentPage, or ends in its catch when the bytes are no PDF.
handleFileParsed(i, written) ==
    /\ i \in 1..Len(loads)
    /\ loads[i].pc = "parse"
    /\ loads' = RemoveAt(loads, i)
    /\ last' = IF loads[i].file.parsable THEN [NoEvent EXCEPT !.op = "handleFileParsed"]
               ELSE [NoEvent EXCEPT !.op = "handleFileFailed", !.before = loads[i].before]
    /\ IF loads[i].file.parsable
       THEN /\ pdfDoc' = Doc(loads[i].file.name, loads[i].file.pages)
            /\ totalPages' = loads[i].file.pages
            /\ currentPage' = 1
            /\ undoStack' = EmptyMap
            /\ redoStack' = EmptyMap
            /\ editorVisible' = TRUE
            /\ renderCurrentPage(pdfDoc', 1, EmptyMap, written)
       ELSE UNCHANGED <<pdfDoc, totalPages, currentPage, undoStack, redoStack,
                        editorVisible, annotations, localStorage, renders>>
    /\ UNCHANGED <<pdfBytes, renderScale, fabricCanvas, pdfCanvas,
                   originalFileName, saves, downloads>>

\* btnNewFile, confirmed
loadNewFile ==
    /\ editorVisible
    /\ pdfDoc' = NoDoc
    /\ pdfBytes' = NoDoc
    /\ annotations' = EmptyMap
    /\ undoStack' = EmptyMap
    /\ redoStack' = EmptyMap
    /\ localStorage' = NoStorage
    /\ editorVisible' = FALSE
    /\ last' = Event("loadNewFile", FALSE)
    /\ UNCHANGED <<currentPage, totalPages, renderScale, fabricCanvas, pdfCanvas,
                   originalFileName, loads, renders, saves, downloads>>

----------------------------------------------------------------------------
(* Saving with pdf-lib: brain.js:673-824 *)

UnencodableText == "unencodable"

CorruptImageSrc == "data:image/png;corrupt"

PngImage == Image("data:image/png;base64")

CorruptImage == Image(CorruptImageSrc)

\* page.drawText throws on a text the Helvetica (WinAnsi) font cannot encode.
drawTextThrows(text) == text = UnencodableText

\* embedPng / embedJpg throws on bytes that are no image.
embedThrows(src) == src = CorruptImageSrc

\* drawTextObject (brain.js:743-779): nothing is drawn for an empty text; an
\* error of page.drawText leaves the function.
drawTextObject(textObj) ==
    IF textObj.text = "" THEN [drawn |-> FALSE, threw |-> FALSE]
    ELSE IF drawTextThrows(textObj.text) THEN [drawn |-> FALSE, threw |-> TRUE]
    ELSE [drawn |-> TRUE, threw |-> FALSE]

\* drawImageObject (brain.js:784-824): nothing is drawn without src; an error
\* of fetch or embed is caught inside (brain.js:821).
drawImageObject(imageObj) ==
    IF imageObj.src = "" THEN [drawn |-> FALSE, threw |-> FALSE]
    ELSE IF embedThrows(imageObj.src) THEN [drawn |-> FALSE, threw |-> FALSE]
    ELSE [drawn |-> TRUE, threw |-> FALSE]

\* Whether drawing obj suspends savePDF: drawImageObject awaits fetch.
suspends(obj) == obj.type = "image" /\ obj.src # ""

\* Object.entries(AppState.annotations): the entries by ascending page key.
RECURSIVE entriesFrom(_, _)
entriesFrom(store, keys) ==
    IF keys = {} THEN <<>>
    ELSE LET k == CHOOSE x \in keys : \A y \in keys : x <= y
         IN  <<[key |-> k, objects |-> store[k]]>> \o entriesFrom(store, keys \ {k})

objectEntries(store) == entriesFrom(store, DOMAIN store)

\* A savePDF invocation suspended at pc; drawn maps each index of
\* pdfDoc.getPages() to what was drawn on that page, in drawing order.
NewSave(bytes) ==
    [pc |-> "load", cause |-> "", bytes |-> bytes, nPages |-> 0, entries |-> <<>>,
     k |-> 0, j |-> 0, scale |-> 0, pageOk |-> FALSE, drawn |-> <<>>,
     startScale |-> 0, scales |-> <<>>]

\* pageIndex = parseInt(pageNum) - 1 (brain.js:694)
pageIndex(key) == key - 1

\* Mutant: only the lower limit of the page index is tested.
outOfRange_lowerOnly(key, nPages) == pageIndex(key) < 0

\* The entry is skipped (brain.js:695).
outOfRange(key, nPages) == pageIndex(key) < 0 \/ pageIndex(key) >= nPages

\* The object drawn: the dispatch on obj.type of brain.js:708-712.
drawObject(obj) ==
    IF obj.type = "textbox" \/ obj.type = "text" THEN drawTextObject(obj)
    ELSE IF obj.type = "image" THEN drawImageObject(obj)
    ELSE [drawn |-> FALSE, threw |-> FALSE]

\* Mutant: the drawing is not wrapped in try/catch, its error leaves the loop.
processObject_noCatch(drawnOnPage, key, j, obj) ==
    LET r == drawObject(obj)
    IN  [threw |-> r.threw,
         drawn |-> IF r.drawn
                   THEN Append(drawnOnPage, [key |-> key, index |-> j, obj |-> obj])
                   ELSE drawnOnPage]

\* Mutant: the object is drawn beneath what the page already holds.
processObject_beneath(drawnOnPage, key, j, obj) ==
    LET r == drawObject(obj)
    IN  [threw |-> FALSE,
         drawn |-> IF r.drawn
                   THEN <<[key |-> key, index |-> j, obj |-> obj]>> \o drawnOnPage
                   ELSE drawnOnPage]

\* The try/catch of brain.js:707-715 around the drawing of object j of the
\* entry of page key: what the output page holds after it, and whether an
\* error leaves it (none does, the catch logs it).
processObject(drawnOnPage, key, j, obj) ==
    LET r == drawObject(obj)
    IN  [threw |-> FALSE,
         drawn |-> IF r.drawn
                   THEN Append(drawnOnPage, [key |-> key, index |-> j, obj |-> obj])
                   ELSE drawnOnPage]

Failed(proc, cause) == [proc EXCEPT !.pc = "failed", !.cause = cause]

\* Mutant: an entry whose page cannot be got from AppState.pdfDoc is passed
\* over and the loop goes on.
RECURSIVE nextEntry_passesOver(_, _, _)
nextEntry_passesOver(proc, k, doc) ==
    IF k > Len(proc.entries) THEN [proc EXCEPT !.pc = "serialize", !.k = k]
    ELSE IF outOfRange(proc.entries[k].key, proc.nPages)
    THEN nextEntry_passesOver(proc, k + 1, doc)
    ELSE IF pageIndex(proc.entries[k].key) \notin DOMAIN proc.drawn
    THEN Failed([proc EXCEPT !.k = k], "getSize")
    ELSE IF ~doc.loaded THEN nextEntry_passesOver(proc, k + 1, doc)
    ELSE [proc EXCEPT !.pc = "getPage", !.k = k,
                      !.pageOk = proc.entries[k].key <= doc.pages]

\* The loop of brain.js:693 from entry k on, up to its next await: entries
\* out of range are skipped; for the first other one pages[pageIndex].getSize()
\* throws when there is no such page, and AppState.pdfDoc.getPage throws when
\* pdfDoc is null and rejects when doc has no such page.
RECURSIVE nextEntry(_, _, _)
nextEntry(proc, k, doc) ==
    IF k > Len(proc.entries) THEN [proc EXCEPT !.pc = "serialize", !.k = k]
    ELSE IF outOfRange(proc.entries[k].key, proc.nPages) THEN nextEntry(proc, k + 1, doc)
    ELSE IF pageIndex(proc.entries[k].key) \notin DOMAIN proc.drawn
    THEN Failed([proc EXCEPT !.k = k], "getSize")
    ELSE IF ~doc.loaded THEN Failed([proc EXCEPT !.k = k], "getPage")
    ELSE [proc EXCEPT !.pc = "getPage", !.k = k,
                      !.pageOk = proc.entries[k].key <= doc.pages]

\* Object j of the entry proc.k processed.
afterObject(proc, j) ==
    LET entry == proc.entries[proc.k]
        index == pageIndex(entry.key)
        r == processObject(proc.drawn[index], entry.key, j, entry.objects[j])
    IN  IF r.threw THEN Failed(proc, "object")
        ELSE [proc EXCEPT !.drawn[index] = r.drawn]

\* The loop of brain.js:706 from object j of entry proc.k on, up to its next
\* await: the objects drawn without suspension are drawn, the loop stops at an
\* object whose drawing awaits a fetch, and goes to the next entry at the end.
RECURSIVE nextObject(_, _, _)
nextObject(proc, j, doc) ==
    LET entry == proc.entries[proc.k]
    IN  IF proc.pc = "failed" THEN proc
        ELSE IF j > Len(entry.objects) THEN nextEntry(proc, proc.k + 1, doc)
        ELSE IF suspends(entry.objects[j]) THEN [proc EXCEPT !.pc = "fetch", !.j = j]
        ELSE nextObject(afterObject(proc, j), j + 1, doc)

otherThanSaves ==
    <<pdfDoc, pdfBytes, currentPage, totalPages, renderScale, fabricCanvas,
      annotations, undoStack, redoStack, pdfCanvas, originalFileName,
      editorVisible, localStorage, loads, renders>>

\* btnSave: savePDF up to its first await (brain.js:674-686)
savePDF(written) ==
    /\ editorVisible
    /\ Len(saves) < MaxSaves
    /\ IF ~pdfBytes.loaded \/ ~pdfDoc.loaded
       THEN UNCHANGED <<annotations, localStorage, saves>>
       ELSE /\ annotations' = saveCurrentPageAnnotations(annotations, fabricCanvas, currentPage)
            /\ localStorage' = persistAnnotations(localStorage, annotations', fabricCanvas, written)
            /\ saves' = Append(saves, [NewSave(pdfBytes) EXCEPT !.startScale = renderScale])
    /\ last' = [Event("savePDF", FALSE) EXCEPT !.written = written]
    /\ UNCHANGED <<pdfDoc, pdfBytes, currentPage, totalPages, renderScale,
                   fabricCanvas, undoStack, redoStack, pdfCanvas,
                   originalFileName, editorVisible, loads, renders, downloads>>

\* A resumed savePDF leaves proc: it stays suspended, or ends in its catch
\* (brain.js:731-734) without a file.
saveContinues(i, proc, op) ==
    /\ saves' = IF proc.pc = "failed" THEN RemoveAt(saves, i)
                ELSE [saves EXCEPT ![i] = proc]
    /\ last' = [NoEvent EXCEPT !.op = IF proc.pc = "failed" THEN "saveFailed" ELSE op,
                               !.cause = proc.cause]
    /\ UNCHANGED downloads
    /\ UNCHANGED otherThanSaves

\* PDFDocument.load resolved (brain.js:686-690)
saveLoaded(i) ==
    /\ i \in 1..Len(saves)
    /\ saves[i].pc = "load"
    /\ saveContinues(i, [saves[i] EXCEPT !.pc = "font", !.nPages = saves[i].bytes.pages],
                     "saveLoaded")

\* embedFont resolved: the loop over the entries of the store starts
\* (brain.js:693-701)
saveFontEmbedded(i) ==
    /\ i \in 1..Len(saves)
    /\ saves[i].pc = "font"
    /\ saveContinues(i,
           nextEntry([saves[i] EXCEPT !.entries = objectEntries(annotations),
                                      !.drawn = [p \in 0..(saves[i].nPages - 1) |-> <<>>]],
                     1, pdfDoc),
           "saveFontEmbedded")

\* getPage resolved or rejected (brain.js:701-706)
saveGotPage(i) ==
    /\ i \in 1..Len(saves)
    /\ saves[i].pc = "getPage"
    /\ saveContinues(i,
           IF ~saves[i].pageOk THEN Failed(saves[i], "getPage")
           ELSE nextObject([saves[i] EXCEPT !.scale = renderScale,
                                            !.scales = Append(@, renderScale)],
                           1, pdfDoc),
           "saveGotPage")

\* The fetch of an image resolved (brain.js:789-817), the loop goes on
saveImageFetched(i) ==
    /\ i \in 1..Len(saves)
    /\ saves[i].pc = "fetch"
    /\ saveContinues(i, nextObject(afterObject(saves[i], saves[i].j), saves[i].j + 1, pdfDoc),
                     "saveImageFetched")

\* pdfDoc.save() resolved: saveAs delivers the file (brain.js:721-729)
saveSerialized(i) ==
    /\ i \in 1..Len(saves)
    /\ saves[i].pc = "serialize"
    /\ downloads' = Append(downloads,
                           [bytes |-> saves[i].bytes, nPages |-> saves[i].nPages,
                            entries |-> saves[i].entries, drawn |-> saves[i].drawn])
    /\ saves' = RemoveAt(saves, i)
    /\ last' = [NoEvent EXCEPT !.op = "saveSerialized"]
    /\ UNCHANGED otherThanSaves

----------------------------------------------------------------------------
(* The editor: one document, the toolbar and the page renders *)

Init ==
    /\ pdfDoc = NoDoc
    /\ pdfBytes = NoDoc
    /\ currentPage = 1
    /\ totalPages = 0
    /\ renderScale = DefaultScale
    /\ fabricCanvas = NoCanvas
    /\ annotations = EmptyMap
    /\ undoStack = EmptyMap
    /\ redoStack = EmptyMap
    /\ pdfCanvas = NoPdfCanvas
    /\ originalFileName = ""
    /\ editorVisible = FALSE
    /\ localStorage = NoStorage
    /\ loads = <<>>
    /\ renders = <<>>
    /\ saves = <<>>
    /\ downloads = <<>>
    /\ last = NoEvent
    /\ steps = 0
    /\ phases = [n |-> 0, op |-> "init"]

\* The item a browser profile can hold at startup: none, the store of an
\* earlier session, a text that is no JSON, a JSON text that is no store.
PersistedItems ==
    {NoStorage,
     [present |-> TRUE, parses |-> TRUE, value |-> <<<<DefaultTextbox>>>>],
     [present |-> TRUE, parses |-> FALSE, value |-> EmptyMap],
     [present |-> TRUE, parses |-> TRUE, value |-> NotAMapping]}

\* The state after the DOMContentLoaded handler (brain.js:113-133) in a
\* profile holding any of these items.
InitRestored ==
    \E item \in PersistedItems :
        LET r == tryRestoreSession(item, EmptyMap)
        IN  /\ pdfDoc = NoDoc
            /\ pdfBytes = NoDoc
            /\ currentPage = 1
            /\ totalPages = 0
            /\ renderScale = DefaultScale
            /\ fabricCanvas = NoCanvas
            /\ annotations = r.store
            /\ undoStack = EmptyMap
            /\ redoStack = EmptyMap
            /\ pdfCanvas = NoPdfCanvas
            /\ originalFileName = ""
            /\ editorVisible = FALSE
            /\ localStorage = item
            /\ loads = <<>>
            /\ renders = <<>>
            /\ saves = <<>>
            /\ downloads = <<>>
            /\ last = [NoEvent EXCEPT !.op = "tryRestoreSession", !.threw = r.threw,
                                      !.storage = item]
            /\ steps = 0
            /\ phases = [n |-> 0, op |-> "init"]

\* A suspended handler resumes: no user event.
Resume(A) == A /\ UNCHANGED <<steps, phases>>

\* A user event, the n-th at most.
Within(n, A) == steps < n /\ A /\ steps' = steps + 1 /\ UNCHANGED phases

User(A) == Within(MaxSteps, A)

EditorTexts == {"Double-click to edit", "edited"}

Continue ==
    \/ \E i \in 1..MaxLoads : Resume(handleFileRead(i))
    \/ \E i \in 1..MaxLoads : Resume(handleFileParsed(i, TRUE))
    \/ \E i \in 1..MaxRenders : Resume(renderGotPage(i))
    \/ \E i \in 1..MaxRenders : Resume(renderDone(i))

Next ==
    \/ Continue
    \/ User(handleFile(PdfFile("a.pdf", MaxPages)))
    \/ User(addObject(DefaultTextbox))
    \/ \E i \in 1..MaxObjects : User(deleteSelected(i))
    \/ \E i \in 1..MaxObjects, t \in EditorTexts : User(objectModified(i, t))
    \/ User(undo)
    \/ User(redo)
    \/ User(nextPage(TRUE))
    \/ User(previousPage(TRUE))

Spec == Init /\ [][Next]_vars

----------------------------------------------------------------------------
(* Long histories: the same handlers, the user repeating one kind of event   *)
(* any number of times and changing the kind of event at most MaxPhases      *)
(* times, so that the history stacks reach UndoLimit.                        *)

Phase(kind, A) ==
    LET n == IF phases.op = kind THEN phases.n ELSE phases.n + 1
    IN  /\ n <= MaxPhases
        /\ A
        /\ phases' = [n |-> n, op |-> kind]
        /\ UNCHANGED steps

NextCap ==
    \/ Continue
    \/ Resume(handleFile(PdfFile("a.pdf", MaxPages)))
    \/ Phase("add", addObject(DefaultTextbox))
    \/ Phase("remove", deleteSelected(1))
    \/ \E t \in EditorTexts : Phase("modify", objectModified(1, t))
    \/ Phase("undo", undo)
    \/ Phase("redo", redo)
    \/ Phase("nextPage", nextPage(TRUE))
    \/ Phase("previousPage", previousPage(TRUE))

SpecCap == Init /\ [][NextCap]_vars

----------------------------------------------------------------------------
(* Saving: documents of one and two pages, objects that draw and objects     *)
(* that fail, a save started at any moment.                                  *)

SaveFiles == {PdfFile("a.pdf", 1), PdfFile("b.pdf", MaxPages)}

SaveObjects == {DefaultTextbox, Textbox(UnencodableText), PngImage, CorruptImage}

ContinueSave ==
    \/ \E i \in 1..MaxSaves : Resume(saveLoaded(i))
    \/ \E i \in 1..MaxSaves : Resume(saveFontEmbedded(i))
    \/ \E i \in 1..MaxSaves : Resume(saveGotPage(i))
    \/ \E i \in 1..MaxSaves : Resume(saveImageFetched(i))
    \/ \E i \in 1..MaxSaves : Resume(saveSerialized(i))

NextSave ==
    \/ Continue
    \/ ContinueSave
    \/ \E f \in SaveFiles : Within(MaxSaveSteps, handleFile(f))
    \/ \E o \in SaveObjects : Within(MaxSaveSteps, addObject(o))
    \/ Within(MaxSaveSteps, nextPage(TRUE))
    \/ Within(MaxSaveSteps, previousPage(TRUE))
    \/ Within(MaxSaveSteps, savePDF(TRUE))
    \/ Within(MaxSaveSteps, loadNewFile)

SpecSave == Init /\ [][NextSave]_vars

----------------------------------------------------------------------------
(* Interleaving: events of the user while a save or a render is suspended.   *)
(* SpecBusyFair adds that a suspended handler is resumed: a promise          *)
(* that is settled has its continuation run by the event loop.               *)

MaxBusySteps == 5

NextBusy ==
    \/ Continue
    \/ ContinueSave
    \/ Within(MaxBusySteps, handleFile(PdfFile("a.pdf", MaxPages)))
    \/ \E o \in {DefaultTextbox, PngImage} : Within(MaxBusySteps, addObject(o))
    \/ Within(MaxBusySteps, nextPage(TRUE))
    \/ Within(MaxBusySteps, previousPage(TRUE))
    \/ Within(MaxBusySteps, savePDF(TRUE))
    \/ \E z \in ZoomScales : Within(MaxBusySteps, zoomChange(z, TRUE))
    \/ Within(MaxBusySteps, loadNewFile)

SpecBusy == Init /\ [][NextBusy]_vars

SpecBusyFair == SpecBusy /\ WF_vars(Continue) /\ WF_vars(ContinueSave)

----------------------------------------------------------------------------
(* The annotation store and its persistence: any profile at startup, files  *)
(* that load and files that do not, storage writes that succeed or throw.   *)

MaxStoreSteps == 5

StoreFiles ==
    {PdfFile("a.pdf", MaxPages),
     [PdfFile("a.txt", 0) EXCEPT !.isPdf = FALSE],
     [PdfFile("unreadable.pdf", 0) EXCEPT !.readable = FALSE],
     [PdfFile("corrupt.pdf", 0) EXCEPT !.parsable = FALSE]}

NextStore ==
    \/ Continue
    \/ \E f \in StoreFiles : Within(MaxStoreSteps, handleFile(f))
    \/ Within(MaxStoreSteps, addObject(DefaultTextbox))
    \/ \E w \in BOOLEAN : Within(MaxStoreSteps, nextPage(w))
    \/ \E w \in BOOLEAN : Within(MaxStoreSteps, previousPage(w))
    \/ \E c \in BOOLEAN : Within(MaxStoreSteps, clearPageAnnotations(c))
    \/ Within(MaxStoreSteps, loadNewFile)

SpecStore == InitRestored /\ [][NextStore]_vars

----------------------------------------------------------------------------
(* Coordinate conversion: brain.js:755-767, 800-809.  Lengths are integers,  *)
(* the quotients of the code are kept exact as fractions [num, den] with     *)
(* den > 0; a property absent from an object is 0, as both are falsy.        *)

Ratio(num, den) == [num |-> num, den |-> den]

\* a * q and a - q for an integer a and a fraction q
Times(a, q) == Ratio(a * q.num, q.den)

Minus(a, q) == Ratio(a * q.den - q.num, q.den)

SameRatio(q, r) == q.num * r.den = r.num * q.den

\* a || b
OrElse(a, b) == IF a = 0 THEN b ELSE a

\* An object with its geometry, as canvas.toJSON() gives it.
Placed(type, left, top, height, fontSize, scaleY) ==
    [type |-> type, left |-> left, top |-> top, height |-> height,
     fontSize |-> fontSize, scaleY |-> scaleY]

\* Mutant: the height of the text is left out of the flip.
textPosition_topOnly(textObj, viewportHeight, pageHeight) ==
    LET fabricLeft == OrElse(textObj.left, 0)
        fabricTop == OrElse(textObj.top, 0)
        scale == Ratio(pageHeight, viewportHeight)
    IN  [x |-> Times(fabricLeft, scale), y |-> Minus(pageHeight, Times(fabricTop, scale))]

\* The x and y drawTextObject passes to page.drawText (brain.js:745-773).
textPosition(textObj, viewportHeight, pageHeight) ==
    LET fontSize == OrElse(textObj.fontSize, 18)
        fabricLeft == OrElse(textObj.left, 0)
        fabricTop == OrElse(textObj.top, 0)
        textHeight == OrElse(textObj.height, fontSize)
        scale == Ratio(pageHeight, viewportHeight)
    IN  [x |-> Times(fabricLeft, scale),
         y |-> Minus(pageHeight, Times(fabricTop + textHeight, scale))]

\* The x and y drawImageObject passes to page.drawImage (brain.js:800-814),
\* the embedded image being imageHeight high.
imagePosition(imageObj, imageHeight, viewportHeight, pageHeight) ==
    LET imgHeight == OrElse(imageObj.height, imageHeight) * OrElse(imageObj.scaleY, 1)
        fabricLeft == OrElse(imageObj.left, 0)
        fabricTop == OrElse(imageObj.top, 0)
        scale == Ratio(pageHeight, viewportHeight)
    IN  [x |-> Times(fabricLeft, scale),
         y |-> Minus(pageHeight, Times(fabricTop + imgHeight, scale))]

Lefts == {0, 100}
Tops == {0, 50}
Heights == {0, 30}
FontSizes == {0, 12}
ScaleYs == {1, 2}
NaturalHeight == 40
PageHeights == {792, 100}
ViewportHeights == {1188, 150, 100}

PlacedObjects ==
    {Placed(t, l, tp, h, f, sy) :
        t \in {"textbox", "image"}, l \in Lefts, tp \in Tops, h \in Heights,
        f \in FontSizes, sy \in ScaleYs}

\* savePDF in front of one object of a page: the object, the page height
\* and the height of the viewport.
InitDraw ==
    /\ pdfDoc = NoDoc
    /\ pdfBytes = NoDoc
    /\ currentPage = 1
    /\ totalPages = 0
    /\ renderScale = DefaultScale
    /\ fabricCanvas = NoCanvas
    /\ annotations = EmptyMap
    /\ undoStack = EmptyMap
    /\ redoStack = EmptyMap
    /\ pdfCanvas = NoPdfCanvas
    /\ originalFileName = ""
    /\ editorVisible = FALSE
    /\ localStorage = NoStorage
    /\ loads = <<>>
    /\ renders = <<>>
    /\ \E o \in PlacedObjects, ph \in PageHeights, vh \in ViewportHeights :
           saves = <<[pc |-> "draw", obj |-> o, pageHeight |-> ph, viewportHeight |-> vh,
                      call |-> [x |-> Ratio(0, 1), y |-> Ratio(0, 1)]]>>
    /\ downloads = <<>>
    /\ last = NoEvent
    /\ steps = 0
    /\ phases = [n |-> 0, op |-> "init"]

\* The object is drawn (brain.js:708-712).
drawPlaced(i) ==
    /\ i \in 1..Len(saves)
    /\ saves[i].pc = "draw"
    /\ LET c == saves[i]
           call == IF c.obj.type = "image"
                   THEN imagePosition(c.obj, NaturalHeight, c.viewportHeight, c.pageHeight)
                   ELSE textPosition(c.obj, c.viewportHeight, c.pageHeight)
       IN  saves' = [saves EXCEPT ![i].pc = "drawn", ![i].call = call]
    /\ last' = [NoEvent EXCEPT !.op = "draw"]
    /\ UNCHANGED <<steps, phases, downloads>>
    /\ UNCHANGED otherThanSaves

NextDraw == drawPlaced(1)

SpecDraw == InitDraw /\ [][NextDraw]_vars

----------------------------------------------------------------------------
(* Properties of the editor *)

Mutations == {"add", "remove", "modify"}

Navigations == {"nextPage", "previousPage"}

\* C2: when the user goes from page p to another page with nextPage or
\* previousPage, the canvas snapshot of p is stored under key p and the store
\* entry of the page gone to is left as it was.
C2_SnapshotStoredUnderPageLeft ==
    (last.op \in Navigations /\ fabricCanvas.exists) =>
        /\ last.page \in DOMAIN annotations
        /\ annotations[last.page] = last.canvas
        /\ (currentPage \in DOMAIN annotations) = (currentPage \in DOMAIN last.store)
        /\ Stack(annotations, currentPage) = Stack(last.store, currentPage)

\* C3: on a page with a non-empty undo stack, Undo followed immediately by
\* Redo leaves the canvas and both history stacks of the page as they were
\* before the Undo.
C3_UndoRedoRoundTrip ==
    (last.op = "redo" /\ last.afterUndo) =>
        /\ fabricCanvas.objects = last.uCanvas
        /\ Stack(undoStack, last.page) = last.uUndo
        /\ Stack(redoStack, last.page) = last.uRedo

\* C4: a mutating annotation event (add, modify, remove) made by the user on
\* page p leaves the redo stack of p empty, however many undos came before.
C4_MutationClearsRedo ==
    last.op \in Mutations =>
        /\ last.page \in DOMAIN redoStack
        /\ redoStack[last.page] = <<>>

C4_Witness ==
    /\ last.op \in Mutations
    /\ last.redo # <<>>

\* C6: Undo on a page whose undo stack is empty or was never created raises
\* no error and leaves the canvas, the history stacks of every page and the
\* annotation store unchanged.
C6_UndoOnEmptyIsNoOp ==
    [][(last'.op = "undo" /\ last'.undo = <<>>) =>
          /\ ~last'.threw
          /\ UNCHANGED <<fabricCanvas, undoStack, redoStack, annotations>>]_vars

C6_Witness ==
    /\ last.op = "undo"
    /\ last.hadUndo
    /\ last.undo = <<>>

\* C7: Redo on a page whose redo stack is empty or was never created raises no
\* error and changes nothing; and in every state a page with a non-empty redo
\* stack has an undo stack, so a Redo that acts never fails on a missing one.
C7_RedoNeverFails ==
    [][/\ \A p \in DOMAIN redoStack' :
              redoStack'[p] # <<>> => p \in DOMAIN undoStack'
       /\ last'.op = "redo" => ~last'.threw
       /\ (last'.op = "redo" /\ last'.redo = <<>>) =>
              UNCHANGED <<fabricCanvas, undoStack, redoStack, annotations>>]_vars

C7_Witness ==
    /\ last.op = "redo"
    /\ last.redo # <<>>
    /\ Len(Stack(undoStack, last.page)) = Len(last.undo) + 1

----------------------------------------------------------------------------
(* Properties of long histories *)

\* C1: the undo stack of every page holds at most 50 snapshots, and a
\* mutation that finds 50 drops the oldest one, the bottom of the stack.
C1_UndoStackBounded ==
    /\ \A p \in DOMAIN undoStack : Len(undoStack[p]) <= UndoLimit
    /\ (last.op \in Mutations /\ Len(last.undo) = UndoLimit) =>
           undoStack[last.page] = Append(Tail(last.undo), fabricCanvas.objects)

C1_Witness ==
    /\ last.op \in Mutations
    /\ Len(last.undo) = UndoLimit
    /\ last.undo[1] # last.undo[2]

\* C5: the redo stack of every page holds at most 50 snapshots.
C5_RedoStackBounded ==
    \A p \in DOMAIN redoStack : Len(redoStack[p]) <= UndoLimit

C5_Witness ==
    /\ last.op = "undo"
    /\ last.undo # <<>>
    /\ Len(redoStack[last.page]) = Len(last.redo) + 1

----------------------------------------------------------------------------
(* Properties of saving *)

\* The output documents: the delivered ones and those being drawn.
Outputs ==
    {downloads[n] : n \in 1..Len(downloads)} \cup
    {[bytes |-> saves[n].bytes, nPages |-> saves[n].nPages,
      entries |-> saves[n].entries, drawn |-> saves[n].drawn] :
        n \in {m \in 1..Len(saves) : saves[m].pc \in {"getPage", "fetch", "serialize"}}}

Delivered == {downloads[n] : n \in 1..Len(downloads)}

\* The objects of a snapshot that can be drawn: a text that is not empty and
\* can be encoded, an image whose data can be decoded.
Drawable(obj) ==
    \/ obj.type = "textbox" /\ obj.text # "" /\ obj.text # UnencodableText
    \/ obj.type = "image" /\ obj.src # "" /\ obj.src # CorruptImageSrc

\* C8: savePDF draws the objects of each stored snapshot on the output page of
\* the same page number, in the order they have in the snapshot.
C8_DrawnInSnapshotOrder ==
    \A out \in Outputs : \A index \in DOMAIN out.drawn :
        LET d == out.drawn[index]
        IN  /\ \A n \in 1..Len(d) :
                  /\ d[n].key = index + 1
                  /\ \E e \in 1..Len(out.entries) :
                        /\ out.entries[e].key = d[n].key
                        /\ d[n].index \in 1..Len(out.entries[e].objects)
                        /\ out.entries[e].objects[d[n].index] = d[n].obj
            /\ \A m, n \in 1..Len(d) : m < n => d[m].index < d[n].index

C8_Witness ==
    \E out \in Delivered : \E index \in DOMAIN out.drawn :
        /\ Len(out.drawn[index]) >= 2
        /\ out.drawn[index][1].obj # out.drawn[index][2].obj

\* C9: an object whose drawing fails is skipped: the delivered document holds
\* every other object of every stored page, and no save ends without a file
\* because of an object.
C9_FailedObjectSkipped ==
    /\ \A out \in Delivered : \A e \in 1..Len(out.entries) :
           ~outOfRange(out.entries[e].key, out.nPages) =>
               {d.index : d \in {out.drawn[pageIndex(out.entries[e].key)][n] :
                                   n \in 1..Len(out.drawn[pageIndex(out.entries[e].key)])}}
               = {j \in 1..Len(out.entries[e].objects) : Drawable(out.entries[e].objects[j])}
    /\ last.op = "saveFailed" => last.cause # "object"

C9_Witness ==
    \E out \in Delivered : \E e, f \in 1..Len(out.entries) :
        /\ e # f
        /\ ~outOfRange(out.entries[e].key, out.nPages)
        /\ ~outOfRange(out.entries[f].key, out.nPages)
        /\ out.drawn[pageIndex(out.entries[f].key)] # <<>>
        /\ \E i, j \in 1..Len(out.entries[e].objects) :
              /\ i < j
              /\ ~Drawable(out.entries[e].objects[i])
              /\ \E n \in 1..Len(out.drawn[pageIndex(out.entries[e].key)]) :
                    out.drawn[pageIndex(out.entries[e].key)][n].index = j

\* C10: a store entry whose key is outside [1, number of pages of the output
\* document] is skipped: nothing is drawn for it, the document keeps its
\* pages, the save does not fail on it, and the other entries are drawn.
C10_OutOfRangeKeySkipped ==
    /\ \A out \in Outputs :
           /\ DOMAIN out.drawn = 0..(out.bytes.pages - 1)
           /\ \A index \in DOMAIN out.drawn : \A n \in 1..Len(out.drawn[index]) :
                  out.drawn[index][n].key \in 1..out.bytes.pages
    /\ \A out \in Delivered : \A e \in 1..Len(out.entries) :
           out.entries[e].key \in 1..out.bytes.pages =>
               \A j \in 1..Len(out.entries[e].objects) :
                   Drawable(out.entries[e].objects[j]) =>
                       \E n \in 1..Len(out.drawn[out.entries[e].key - 1]) :
                           out.drawn[out.entries[e].key - 1][n].index = j
    /\ last.op = "saveFailed" => last.cause # "getSize"

C10_Witness ==
    \E out \in Delivered : \E e, f \in 1..Len(out.entries) :
        /\ out.entries[e].key > out.bytes.pages
        /\ out.entries[e].objects # <<>>
        /\ out.entries[f].key <= out.bytes.pages
        /\ out.drawn[out.entries[f].key - 1] # <<>>

\* C11: at most one savePDF invocation is in progress at any time: no save
\* starts before the one before it has ended.
C11_OneSaveInProgress ==
    Len(saves) <= 1

\* C12: while a savePDF or a renderCurrentPage is suspended no handler
\* changes the state it reads: a suspended render finds the page it was
\* started for, and every page of a save is transformed with the render
\* scale the save started with.
C12_NoChangeWhileSuspended ==
    /\ \A i \in 1..Len(saves) : \A n \in 1..Len(saves[i].scales) :
           saves[i].scales[n] = saves[i].startScale
    /\ \A i \in 1..Len(renders) : renders[i].page = currentPage

\* Every stored page of the output document out was processed: each object
\* of each entry that can be drawn is on its page.
Processed(out) ==
    \A e \in 1..Len(out.entries) :
        ~outOfRange(out.entries[e].key, out.nPages) =>
            \A j \in 1..Len(out.entries[e].objects) :
                Drawable(out.entries[e].objects[j]) =>
                    \E n \in 1..Len(out.drawn[pageIndex(out.entries[e].key)]) :
                        out.drawn[pageIndex(out.entries[e].key)][n].index = j

\* C13: a savePDF that has started ends, and it ends in one of two ways: the
\* file is delivered after the loop went through all stored pages, or the
\* failure is reported and no file is delivered.
C13_SaveRunsToCompletion ==
    /\ [][Len(saves') < Len(saves) =>
            \/ /\ last'.op = "saveSerialized"
               /\ \E i \in 1..Len(saves) :
                     /\ saves' = RemoveAt(saves, i)
                     /\ saves[i].k > Len(saves[i].entries)
                     /\ Len(saves[i].scales) =
                            Cardinality({e \in 1..Len(saves[i].entries) :
                                ~outOfRange(saves[i].entries[e].key, saves[i].nPages)})
                     /\ downloads' = Append(downloads, downloads'[Len(downloads')])
                     /\ downloads'[Len(downloads')].entries = saves[i].entries
               /\ Processed(downloads'[Len(downloads')])
            \/ /\ last'.op = "saveFailed"
               /\ downloads' = downloads]_vars
    /\ [][downloads' # downloads => Len(saves') < Len(saves)]_vars
    /\ (saves # <<>>) ~> (saves = <<>>)

C13_Witness ==
    /\ last.op = "saveFailed"
    /\ last.cause = "getPage"
    /\ downloads = <<>>

----------------------------------------------------------------------------
(* Properties of the annotation store *)

\* A save-point was taken by the last event: a page switch with a canvas.
SavePoint == last.op \in Navigations /\ last.hadCanvas

\* The entries of the store other than that of the current page are as the
\* last event found them.
OtherEntriesKept ==
    /\ DOMAIN annotations \ {currentPage} = DOMAIN last.store \ {currentPage}
    /\ \A p \in DOMAIN annotations \ {currentPage} : annotations[p] = last.store[p]

\* C14: saveCurrentPageAnnotations sets the store entry of the current page
\* to the canvas snapshot, and when the write succeeds the item persisted is
\* the whole store, all pages.
C14_StoreMirroredWhole ==
    SavePoint =>
        /\ currentPage \in DOMAIN annotations
        /\ annotations[currentPage] = fabricCanvas.objects
        /\ last.written =>
               localStorage = [present |-> TRUE, parses |-> TRUE, value |-> annotations]

C14_Witness ==
    /\ SavePoint
    /\ last.written
    /\ DOMAIN annotations = {1, 2}
    /\ annotations[1] # annotations[2]

\* C15: when the write to storage fails at a save-point, no error leaves the
\* handler, the store holds the new snapshot of the current page and its
\* other entries are unchanged.
C15_WriteFailureKeepsStore ==
    (SavePoint /\ ~last.written) =>
        /\ ~last.threw
        /\ currentPage \in DOMAIN annotations
        /\ annotations[currentPage] = last.canvas
        /\ OtherEntriesKept
        /\ localStorage = last.storage

C15_Witness ==
    /\ SavePoint
    /\ ~last.written
    /\ last.canvas # <<>>
    /\ Stack(last.store, currentPage) # last.canvas
    /\ DOMAIN last.store \ {currentPage} # {}

\* C16: a confirmed clearPageAnnotations on page p removes the store entry of
\* p and leaves the other entries unchanged; and the store of a loaded
\* document has an entry for a page only once that page was annotated.
C16_EntryFromAnnotationToClear ==
    /\ (last.op = "clear" /\ last.confirmed /\ last.hadCanvas) =>
           /\ currentPage \notin DOMAIN annotations
           /\ OtherEntriesKept
    /\ editorVisible => \A p \in DOMAIN annotations : p \in DOMAIN undoStack

\* The persisted item is a well-formed mapping from pages to snapshots.
WellFormedItem(item) == item.present /\ item.parses /\ item.value # NotAMapping

\* C17: at startup, when the persisted item is absent or is no well-formed
\* mapping from pages to snapshots, tryRestoreSession raises no error and
\* leaves the annotation store an empty mapping.
C17_RestoreLeavesStoreEmpty ==
    (last.op = "tryRestoreSession" /\ ~WellFormedItem(last.storage)) =>
        /\ ~last.threw
        /\ annotations = EmptyMap

\* C18: when handleFile is given a file that is no PDF, or whose bytes cannot
\* be read or parsed, the session state is as it was before the call.
C18_FailedLoadChangesNothing ==
    last.op \in {"handleFileRejected", "handleFileFailed"} => session = last.before

----------------------------------------------------------------------------
(* Properties of the coordinate conversion *)

DrawnPlaced == {saves[i] : i \in {n \in 1..Len(saves) : saves[n].pc = "drawn"}}

\* The height of the object on the canvas: for an image the object height
\* multiplied by its vertical scale factor.
CanvasHeightOf(obj) == IF obj.type = "image" THEN obj.height * obj.scaleY ELSE obj.height

\* C19: for an object with positive left, top and height the position drawn
\* at is x = left * scale, y = pageHeight - (top + height) * scale with
\* scale = pageHeight / canvasHeight for both axes.
C19_PositionFlippedAndScaled ==
    \A c \in DrawnPlaced :
        (c.obj.left > 0 /\ c.obj.top > 0 /\ c.obj.height > 0) =>
            /\ SameRatio(c.call.x, Ratio(c.obj.left * c.pageHeight, c.viewportHeight))
            /\ SameRatio(c.call.y,
                         Ratio(c.pageHeight * c.viewportHeight
                                   - (c.obj.top + CanvasHeightOf(c.obj)) * c.pageHeight,
                               c.viewportHeight))

C19_Witness ==
    \E c \in DrawnPlaced :
        /\ c.obj.type = "textbox"
        /\ c.obj.left > 0 /\ c.obj.top > 0 /\ c.obj.height > 0
        /\ c.pageHeight # c.viewportHeight

\* C20: for an object of height zero the conversion gives
\* y = pageHeight - top * scale, no height is subtracted.
C20_ZeroHeightMapsTop ==
    \A c \in DrawnPlaced :
        c.obj.height = 0 =>
            SameRatio(c.call.y,
                      Ratio(c.pageHeight * c.viewportHeight - c.obj.top * c.pageHeight,
                            c.viewportHeight))

----------------------------------------------------------------------------
(* Zoom and the position in the output: brain.js:183-186, 331-374, 697-712 *)

MaxZoomSteps == 4

\* The height in points of the page of the document (brain.js:907).
LetterHeight == 792

\* page.getViewport({ scale }).height, scale in hundredths (brain.js:344, 702)
viewportHeightAt(pageHeight, scale) == (pageHeight * scale) \div 100

\* The object the user puts on the canvas at (left, top) canvas pixels; scale
\* is AppState.renderScale of that moment, remembered for the properties.
PlacedAt(type, left, top, height, scale) ==
    [type |-> type, left |-> left, top |-> top, height |-> height,
     fontSize |-> 12, scaleY |-> 1, text |-> "t", src |-> "", placedScale |-> scale]

\* The x and y savePDF draws obj at on a page pageHeight high when
\* AppState.renderScale = scale (brain.js:701-712).
drawnPosition(obj, pageHeight, scale) ==
    IF obj.type = "image"
    THEN imagePosition(obj, NaturalHeight, viewportHeightAt(pageHeight, scale), pageHeight)
    ELSE textPosition(obj, viewportHeightAt(pageHeight, scale), pageHeight)

\* savePDF reaches object n of the current page, no event arriving during the
\* save: the viewport is computed with the scale of that moment.
drawOnPage(n) ==
    /\ editorVisible
    /\ fabricCanvas.exists
    /\ renders = <<>>
    /\ saves = <<>>
    /\ n \in 1..Len(fabricCanvas.objects)
    /\ LET obj == fabricCanvas.objects[n]
       IN  saves' = <<[pc |-> "drawn", obj |-> obj, pageHeight |-> LetterHeight,
                       viewportHeight |-> viewportHeightAt(LetterHeight, renderScale),
                       call |-> drawnPosition(obj, LetterHeight, renderScale)]>>
    /\ last' = [Event("draw", FALSE) EXCEPT !.written = TRUE]
    /\ UNCHANGED <<steps, phases, downloads>>
    /\ UNCHANGED otherThanSaves

NextZoom ==
    \/ Resume(handleFile(PdfFile("a.pdf", 1)))
    \/ Resume(handleFileRead(1))
    \/ Resume(handleFileParsed(1, TRUE))
    \/ \E i \in 1..MaxRenders : Resume(renderGotPage(i))
    \/ \E i \in 1..MaxRenders : Resume(renderDone(i))
    \/ \E t \in {"textbox", "image"}, l \in Lefts, tp \in Tops :
           Within(MaxZoomSteps,
                  fabricCanvas.objects = <<>> /\ addObject(PlacedAt(t, l, tp, 30, renderScale)))
    \/ \E z \in ZoomScales : Within(MaxZoomSteps, zoomChange(z, TRUE))
    \/ Resume(drawOnPage(1))

SpecZoom == Init /\ [][NextZoom]_vars

\* C21: an object placed on its page is drawn by savePDF at the position it
\* would be drawn at had the zoom stayed the one of the moment it was placed,
\* whatever zoom levels were selected in between.
C21_PositionIndependentOfZoom ==
    \A c \in DrawnPlaced :
        LET ref == drawnPosition(c.obj, c.pageHeight, c.obj.placedScale)
        IN  SameRatio(c.call.x, ref.x) /\ SameRatio(c.call.y, ref.y)

----------------------------------------------------------------------------
(* The loan calculator: census-calculator.js:104-153                         *)
(*                                                                           *)
(* A JavaScript number is a binary floating-point value; every + - * / is    *)
(* rounded to the nearest value of the format, ties to even. The model keeps *)
(* the format with a significand of Precision bits in place of 53 and an     *)
(* unbounded exponent. A finite value is m * 2^e with m odd, or 0; the other *)
(* values are the two infinities and NaN.                                    *)

Precision == 10

RECURSIVE Pow2(_)
Pow2(n) == IF n <= 0 THEN 1 ELSE 2 * Pow2(n - 1)

NaN == [k |-> "nan", m |-> 0, e |-> 0]

Infinity(sign) == [k |-> "inf", m |-> sign, e |-> 0]

Sign(x) == IF x > 0 THEN 1 ELSE IF x < 0 THEN -1 ELSE 0

Abs(x) == IF x < 0 THEN -x ELSE x

\* m * 2^e with the trailing zeros of m moved into the exponent
RECURSIVE Canon(_, _)
Canon(m, e) ==
    IF m = 0 THEN [k |-> "num", m |-> 0, e |-> 0]
    ELSE IF m % 2 = 0 THEN Canon(m \div 2, e + 1)
    ELSE [k |-> "num", m |-> m, e |-> e]

\* the number of low bits a magnitude has beyond Precision
RECURSIVE Excess(_)
Excess(mag) == IF mag < Pow2(Precision) THEN 0 ELSE 1 + Excess(mag \div 2)

\* sign * mag * 2^e rounded to Precision bits, ties to even
Rounded(sign, mag, e) ==
    LET n == Excess(mag)
        q == mag \div Pow2(n)
        r == mag % Pow2(n)
        up == n > 0 /\ (2 * r > Pow2(n) \/ (2 * r = Pow2(n) /\ q % 2 = 1))
    IN  Canon(sign * (IF up THEN q + 1 ELSE q), e + n)

Number(n) == Rounded(Sign(n), Abs(n), 0)

\* the number of bits of a magnitude
RECURSIVE Bits(_)
Bits(mag) == IF mag = 0 THEN 0 ELSE 1 + Bits(mag \div 2)

\* the exponent just above the leading bit of a finite value
TopBit(a) == a.e + Bits(Abs(a.m))

Neg(a) == IF a.k = "nan" THEN a ELSE [a EXCEPT !.m = -a.m]

\* a + b
Plus(a, b) ==
    IF a.k = "nan" \/ b.k = "nan" THEN NaN
    ELSE IF a.k = "inf" /\ b.k = "inf" THEN (IF a.m = b.m THEN a ELSE NaN)
    ELSE IF a.k = "inf" THEN a
    ELSE IF b.k = "inf" THEN b
    ELSE IF a.m = 0 THEN b
    ELSE IF b.m = 0 THEN a
    ELSE IF TopBit(a) - TopBit(b) > Precision + 2 THEN a
    ELSE IF TopBit(b) - TopBit(a) > Precision + 2 THEN b
    ELSE LET lo == IF a.e < b.e THEN a.e ELSE b.e
             s == a.m * Pow2(a.e - lo) + b.m * Pow2(b.e - lo)
         IN  Rounded(Sign(s), Abs(s), lo)

\* a - b
Less(a, b) == Plus(a, Neg(b))

\* a * b
Mult(a, b) ==
    IF a.k = "nan" \/ b.k = "nan" THEN NaN
    ELSE IF a.k = "inf" \/ b.k = "inf"
         THEN (IF a.m = 0 \/ b.m = 0 THEN NaN ELSE Infinity(Sign(a.m) * Sign(b.m)))
    ELSE Rounded(Sign(a.m) * Sign(b.m), Abs(a.m) * Abs(b.m), a.e + b.e)

\* a / b; a zero divisor is +0
Over(a, b) ==
    IF a.k = "nan" \/ b.k = "nan" THEN NaN
    ELSE IF a.k = "inf" THEN (IF b.k = "inf" THEN NaN
                              ELSE Infinity(a.m * (IF b.m < 0 THEN -1 ELSE 1)))
    ELSE IF b.k = "inf" THEN Number(0)
    ELSE IF b.m = 0 THEN (IF a.m = 0 THEN NaN ELSE Infinity(Sign(a.m)))
    ELSE IF a.m = 0 THEN Number(0)
    ELSE LET shift == 2 * Precision + 3 - Bits(Abs(a.m))
             num == Abs(a.m) * Pow2(shift)
             q == num \div Abs(b.m)
             sticky == IF num % Abs(b.m) = 0 THEN 0 ELSE 1
         IN  Rounded(Sign(a.m) * Sign(b.m), 2 * q + sticky, a.e - b.e - shift - 1)

\* a > 0, a === 0, a < 0 and a === b
Positive(a) == a.k # "nan" /\ a.m > 0

IsZero(a) == a.k = "num" /\ a.m = 0

Negative(a) == a.k # "nan" /\ a.m < 0

StrictEquals(a, b) == a.k # "nan" /\ b.k # "nan" /\ a = b

\* Math.pow(base, n) for a whole n >= 1: an implementation-approximated
\* value, here the product taken factor by factor.
RECURSIVE MathPow(_, _)
MathPow(base, n) == IF n = 1 THEN base ELSE Mult(MathPow(base, n - 1), base)

\* calculateLoanPayment past its argument check (census-calculator.js:109-117)
calculateLoanPayment(principal, annualRate, loanTermYears) ==
    LET monthlyRate == Over(annualRate, Number(12))
        numberOfPayments == loanTermYears * 12
        growth == MathPow(Plus(Number(1), monthlyRate), numberOfPayments)
    IN  IF IsZero(monthlyRate) THEN Over(principal, Number(numberOfPayments))
        ELSE Over(Mult(principal, Mult(monthlyRate, growth)), Less(growth, Number(1)))

\* One turn of the loop (census-calculator.js:140-150) with the balance it
\* finds: the balance it leaves and the entry it pushes.
scheduleEntry(i, monthlyRate, monthlyPayment, balance) ==
    LET interestPayment == Mult(balance, monthlyRate)
        principalPayment == Less(monthlyPayment, interestPayment)
        newBalance == Less(balance, principalPayment)
    IN  [balance |-> newBalance,
         entry |-> [period |-> i, payment |-> monthlyPayment,
                    principalPaid |-> principalPayment,
                    interestPaid |-> interestPayment,
                    remainingBalance |-> IF Positive(newBalance) THEN newBalance
                                         ELSE Number(0)]]

\* The loop from period i on (census-calculator.js:139-151).
RECURSIVE scheduleFrom(_, _, _, _, _)
scheduleFrom(i, numberOfPayments, monthlyRate, monthlyPayment, balance) ==
    IF i > numberOfPayments THEN <<>>
    ELSE LET turn == scheduleEntry(i, monthlyRate, monthlyPayment, balance)
         IN  <<turn.entry>>
             \o scheduleFrom(i + 1, numberOfPayments, monthlyRate, monthlyPayment,
                             turn.balance)

\* generateAmortizationSchedule (census-calculator.js:127-153): whether it
\* throws, and the schedule it returns.
generateAmortizationSchedule(principal, annualRate, loanTermYears) ==
    IF ~Positive(principal) \/ Negative(annualRate) \/ loanTermYears <= 0
    THEN [threw |-> TRUE, schedule |-> <<>>]
    ELSE [threw |-> FALSE,
          schedule |-> scheduleFrom(1, loanTermYears * 12,
                                    Over(annualRate, Number(12)),
                                    calculateLoanPayment(principal, annualRate, loanTermYears),
                                    principal)]

\* The arguments of the calls: principals, annual rates (none, 1/8, 3/64,
\* 1/4096 and 1/2^20) and whole numbers of years.
Principals == {Number(0), Number(1000), Number(24), Number(50000), Number(7)}

AnnualRates == {Number(0), Canon(1, -3), Canon(3, -6), Canon(1, -12), Canon(1, -20),
                Canon(5, -5), Canon(-1, -3)}

LoanTerms == {1, 2}

InitLoan ==
    /\ pdfDoc = NoDoc
    /\ pdfBytes = NoDoc
    /\ currentPage = 1
    /\ totalPages = 0
    /\ renderScale = DefaultScale
    /\ fabricCanvas = NoCanvas
    /\ annotations = EmptyMap
    /\ undoStack = EmptyMap
    /\ redoStack = EmptyMap
    /\ pdfCanvas = NoPdfCanvas
    /\ originalFileName = ""
    /\ editorVisible = FALSE
    /\ localStorage = NoStorage
    /\ loads = <<>>
    /\ renders = <<>>
    /\ \E p \in Principals, r \in AnnualRates, y \in LoanTerms :
           saves = <<[pc |-> "call", principal |-> p, annualRate |-> r,
                      loanTermYears |-> y, threw |-> FALSE, schedule |-> <<>>]>>
    /\ downloads = <<>>
    /\ last = NoEvent
    /\ steps = 0
    /\ phases = [n |-> 0, op |-> "init"]

\* The call returns or throws.
amortizationCall(i) ==
    /\ i \in 1..Len(saves)
    /\ saves[i].pc = "call"
    /\ LET c == saves[i]
           r == generateAmortizationSchedule(c.principal, c.annualRate, c.loanTermYears)
       IN  saves' = [saves EXCEPT ![i].pc = "returned", ![i].threw = r.threw,
                                  ![i].schedule = r.schedule]
    /\ last' = [NoEvent EXCEPT !.op = "amortization"]
    /\ UNCHANGED <<steps, phases, downloads>>
    /\ UNCHANGED otherThanSaves

NextLoan == amortizationCall(1)

SpecLoan == InitLoan /\ [][NextLoan]_vars

Returned == {saves[i] : i \in {n \in 1..Len(saves) : saves[n].pc = "returned"}}

\* C22: for a positive principal, a non-negative annual rate and a positive
\* whole number of years the schedule has 12 * years entries with periods
\* 1, 2, ..., 12 * years in order, every entry has payment = principalPaid +
\* interestPaid, and no remainingBalance is negative.
C22_ScheduleWellFormed ==
    \A c \in Returned :
        (Positive(c.principal) /\ ~Negative(c.annualRate) /\ c.loanTermYears > 0) =>
            /\ ~c.threw
            /\ Len(c.schedule) = 12 * c.loanTermYears
            /\ \A n \in 1..Len(c.schedule) :
                   /\ c.schedule[n].period = n
                   /\ StrictEquals(c.schedule[n].payment,
                                   Plus(c.schedule[n].principalPaid, c.schedule[n].interestPaid))
                   /\ ~Negative(c.schedule[n].remainingBalance)

----------------------------------------------------------------------------
(* Several documents: the editor of brain.js with documents of different     *)
(* numbers of pages, loaded one after the other.                             *)

MaxDocSteps == 7

DocFiles == {PdfFile("a.pdf", MaxPages), PdfFile("b.pdf", 1)}

NextDocs ==
    \/ Continue
    \/ \E f \in DocFiles : Within(MaxDocSteps, handleFile(f))
    \/ Within(MaxDocSteps, addObject(DefaultTextbox))
    \/ Within(MaxDocSteps, undo)
    \/ Within(MaxDocSteps, redo)
    \/ Within(MaxDocSteps, nextPage(TRUE))
    \/ Within(MaxDocSteps, previousPage(TRUE))
    \/ \E z \in ZoomScales : Within(MaxDocSteps, zoomChange(z, TRUE))
    \/ Within(MaxDocSteps, loadNewFile)

SpecDocs == Init /\ [][NextDocs]_vars

\* C23: once a document with at least one page has been loaded,
\* 1 <= currentPage <= totalPages and every key of the annotation store, of
\* the undo-stack map and of the redo-stack map is in 1..totalPages.
C23_PagesAndKeysInRange ==
    totalPages >= 1 =>
        /\ currentPage \in 1..totalPages
        /\ DOMAIN annotations \subseteq 1..totalPages
        /\ DOMAIN undoStack \subseteq 1..totalPages
        /\ DOMAIN redoStack \subseteq 1..totalPages

\* A document of one page has just been loaded while page 2 of the document
\* before it is still on the PDF canvas.
C23_Witness ==
    /\ pdfDoc.loaded
    /\ totalPages = 1
    /\ pdfCanvas.page = 2
    /\ last.op = "handleFileParsed"

HistoryEvents == Mutations \cup {"undo", "redo"}

\* C24: a mutating event, an Undo or a Redo changes the undo and redo stacks
\* of the current page only, the stacks of every other page stay as they are,
\* also while a page switch is still rendering.
C24_OtherPagesStacksUnchanged ==
    [][last'.op \in HistoryEvents =>
          \A k \in (1..MaxPages) \ {currentPage} :
              /\ (k \in DOMAIN undoStack') = (k \in DOMAIN undoStack)
              /\ (k \in DOMAIN redoStack') = (k \in DOMAIN redoStack)
              /\ Stack(undoStack', k) = Stack(undoStack, k)
              /\ Stack(redoStack', k) = Stack(redoStack, k)]_vars

\* A mutating event has arrived while a page switch is rendering and another
\* page has snapshots on its undo stack.
C24_Witness ==
    /\ last.op \in Mutations
    /\ renders # <<>>
    /\ \E k \in DOMAIN undoStack : k # last.page /\ undoStack[k] # <<>>

\* C25: at most one editing-surface canvas instance is live (created and not
\* disposed) in every reachable state, also when renders overlap.
C25_OneLiveCanvas == fabricCanvas.live <= 1

\* A render has replaced a canvas while another render is in progress.
C25_Witness ==
    /\ last.op = "renderDone"
    /\ last.hadCanvas
    /\ renders # <<>>
    /\ fabricCanvas.live = 1

\* C26: Undo directly after one mutating event (add, modify or remove) on a
\* page leaves the canvas with the objects it had before that mutation.
C26_UndoRestoresBeforeMutation ==
    (last.op = "undo" /\ last.afterMutation) => fabricCanvas.objects = last.mCanvas

\* C27: after loadNewFile and a successful handleFile the annotation store
\* holds no object: the new document starts with an empty store.
C27_NewDocumentStartsEmpty ==
    last.op = "handleFileParsed" =>
        \A k \in DOMAIN annotations : annotations[k] = <<>>

\* C28: whenever no render is in progress, the page drawn on the PDF canvas is
\* AppState.currentPage, for any interleaving of overlapping renders.
C28_DrawnPageIsCurrentPage ==
    (pdfDoc.loaded /\ loads = <<>> /\ renders = <<>>) => pdfCanvas.page = currentPage

----------------------------------------------------------------------------
(* The minimal editor: pdf-editor-mvp/app.js.  Its pdfBytes, pdfDoc and      *)
(* annotations are the variables of the same names; annotations is a list of *)
(* {text, x, y}; pdfDoc is a pdf-lib document, drawn being what has been     *)
(* drawn on its first page.                                                  *)

MaxMvpSteps == 5

\* let scale = 2 (app.js:11)
mvpScale == 2

NoPdfLibDoc == [loaded |-> FALSE, name |-> "", pages |-> 0, drawn |-> <<>>]

\* PDFLib.PDFDocument.load(pdfBytes): the document as the file holds it
PdfLibDoc(name, pages) == [loaded |-> TRUE, name |-> name, pages |-> pages, drawn |-> <<>>]

\* firstPage.drawText(a.text, {x, y, size, color}) (app.js:76-81)
drawText(a, height) ==
    [text |-> a.text, x |-> a.x \div mvpScale, y |-> height - (a.y \div mvpScale)]

\* annotations.forEach(a => firstPage.drawText(...)) (app.js:75-82)
drawAll(list, height) == [n \in 1..Len(list) |-> drawText(list[n], height)]

InitMvp ==
    /\ pdfDoc = NoPdfLibDoc
    /\ pdfBytes = NoDoc
    /\ currentPage = 1
    /\ totalPages = 0
    /\ renderScale = DefaultScale
    /\ fabricCanvas = NoCanvas
    /\ annotations = <<>>
    /\ undoStack = EmptyMap
    /\ redoStack = EmptyMap
    /\ pdfCanvas = NoPdfCanvas
    /\ originalFileName = ""
    /\ editorVisible = FALSE
    /\ localStorage = NoStorage
    /\ loads = <<>>
    /\ renders = <<>>
    /\ saves = <<>>
    /\ downloads = <<>>
    /\ last = NoEvent
    /\ steps = 0
    /\ phases = [n |-> 0, op |-> "init"]

otherThanMvp ==
    <<currentPage, totalPages, renderScale, fabricCanvas, undoStack, redoStack,
      pdfCanvas, originalFileName, editorVisible, localStorage, renders>>

\* 'change' of #file-input up to its first await (app.js:37-40)
fileInputChange(file) ==
    /\ Len(loads) < MaxLoads
    /\ loads' = IF file.isPdf THEN Append(loads, [pc |-> "read", file |-> file]) ELSE loads
    /\ last' = [NoEvent EXCEPT !.op = IF file.isPdf THEN "change" ELSE "changeRejected"]
    /\ UNCHANGED <<pdfDoc, pdfBytes, annotations, saves, downloads>>
    /\ UNCHANGED otherThanMvp

\* file.arrayBuffer() resolves (app.js:40-41)
fileInputRead(i) ==
    /\ i \in 1..Len(loads)
    /\ loads[i].pc = "read"
    /\ pdfBytes' = Doc(loads[i].file.name, loads[i].file.pages)
    /\ loads' = [loads EXCEPT ![i].pc = "load"]
    /\ last' = [NoEvent EXCEPT !.op = "changeRead"]
    /\ UNCHANGED <<pdfDoc, annotations, saves, downloads>>
    /\ UNCHANGED otherThanMvp

\* PDFDocument.load resolves (app.js:41-55)
fileInputLoaded(i) ==
    /\ i \in 1..Len(loads)
    /\ loads[i].pc = "load"
    /\ pdfDoc' = PdfLibDoc(loads[i].file.name, loads[i].file.pages)
    /\ annotations' = <<>>
    /\ loads' = RemoveAt(loads, i)
    /\ last' = [NoEvent EXCEPT !.op = "changeLoaded"]
    /\ UNCHANGED <<pdfBytes, saves, downloads>>
    /\ UNCHANGED otherThanMvp

\* 'click' of #add-text, the prompt answered with text and Math.random
\* giving x and y (app.js:59-66)
addTextClick(text, x, y) ==
    /\ Len(annotations) < MaxObjects
    /\ annotations' = IF text = "" THEN annotations
                      ELSE Append(annotations, [text |-> text, x |-> x, y |-> y])
    /\ last' = [NoEvent EXCEPT !.op = "addText"]
    /\ UNCHANGED <<pdfDoc, pdfBytes, loads, saves, downloads>>
    /\ UNCHANGED otherThanMvp

\* 'click' of #save-pdf up to its await (app.js:70-84): the annotations are
\* drawn on the first page of pdfDoc and pdfDoc.save() is called.
savePdfClick ==
    /\ pdfDoc.loaded
    /\ Len(saves) < MaxSaves
    /\ pdfDoc' = [pdfDoc EXCEPT !.drawn = pdfDoc.drawn \o drawAll(annotations, LetterHeight)]
    /\ saves' = Append(saves, [pc |-> "save", annotations |-> annotations,
                               drawn |-> pdfDoc'.drawn])
    /\ last' = [NoEvent EXCEPT !.op = "savePdf"]
    /\ UNCHANGED <<pdfBytes, annotations, loads, downloads>>
    /\ UNCHANGED otherThanMvp

\* pdfDoc.save() resolves and edited.pdf is downloaded (app.js:84-89)
savePdfSaved(i) ==
    /\ i \in 1..Len(saves)
    /\ saves[i].pc = "save"
    /\ downloads' = Append(downloads, [annotations |-> saves[i].annotations,
                                       drawn |-> saves[i].drawn])
    /\ saves' = RemoveAt(saves, i)
    /\ last' = [NoEvent EXCEPT !.op = "savePdfSaved"]
    /\ UNCHANGED <<pdfDoc, pdfBytes, annotations, loads>>
    /\ UNCHANGED otherThanMvp

MvpFiles == {PdfFile("a.pdf", 1), [PdfFile("a.txt", 0) EXCEPT !.isPdf = FALSE]}

MvpTexts == {"", "note"}

MvpCoordinates == {50, 250}

NextMvp ==
    \/ \E f \in MvpFiles : Within(MaxMvpSteps, fileInputChange(f))
    \/ \E i \in 1..MaxLoads : Resume(fileInputRead(i))
    \/ \E i \in 1..MaxLoads : Resume(fileInputLoaded(i))
    \/ \E t \in MvpTexts, x \in MvpCoordinates, y \in MvpCoordinates :
           Within(MaxMvpSteps, addTextClick(t, x, y))
    \/ Within(MaxMvpSteps, savePdfClick)
    \/ \E i \in 1..MaxSaves : Resume(savePdfSaved(i))

SpecMvp == InitMvp /\ [][NextMvp]_vars

\* C29: a save that follows a save of the same annotation list gives a
\* document in which every annotation is drawn exactly once: the drawings of
\* earlier saves do not accumulate.
C29_SaveDoesNotAccumulate ==
    \A n \in 2..Len(downloads) :
        downloads[n].annotations = downloads[n - 1].annotations =>
            downloads[n].drawn = drawAll(downloads[n].annotations, LetterHeight)

====
